---- MODULE Spec2Model ----
(***************************************************************************)
(* Model of utils/search_engine.py: SearchIndex and SearchEngine.          *)
(* Strings are sequences of one-character strings, so that lower(),        *)
(* re.findall(r'\w+'), fnmatch and re.search are computed, not assumed.    *)
(***************************************************************************)
EXTENDS Integers, Sequences, FiniteSets, TLC

\* Python's None, for an optional atom, an optional number and an optional string
None == "None"
NoneNum == 0 - 1
NoneStr == <<"None">>

(***************************************************************************)
(* Bounds of the model.                                                    *)
(***************************************************************************)
MaxResultsArg == 2     \* max_results is drawn from 0..MaxResultsArg

\* each thread performs one search_files invocation
Threads == {"t1", "t2"}

(***************************************************************************)
(* Characters and strings.                                                 *)
(***************************************************************************)
Lower(c) ==
  CASE c = "A" -> "a"
    [] c = "B" -> "b"
    [] c = "T" -> "t"
    [] OTHER -> c

LowerStr(s) == [i \in 1..Len(s) |-> Lower(s[i])]

\* the class \w of the re module, restricted to the alphabet of the model
IsWordChar(c) == c \in {"a", "b", "t", "A", "B", "T", "_", "0", "1"}

\* s[i..j] as a sequence (empty when j < i)
Slice(s, i, j) == [k \in 1..(j - i + 1) |-> s[i + k - 1]]

\* Python's `w in t` on strings
IsSubstring(w, t) ==
  \E i \in 1..(Len(t) - Len(w) + 1) : Slice(t, i, i + Len(w) - 1) = w

EndsWith(s, suffix) ==
  /\ Len(suffix) <= Len(s)
  /\ Slice(s, Len(s) - Len(suffix) + 1, Len(s)) = suffix

\* re.findall(r'\w+', s): the maximal runs of word characters of s
RECURSIVE WordRunEnd(_, _)
WordRunEnd(s, i) ==
  IF i < Len(s) /\ IsWordChar(s[i + 1]) THEN WordRunEnd(s, i + 1) ELSE i

RECURSIVE FindWordsFrom(_, _)
FindWordsFrom(s, i) ==
  IF i > Len(s) THEN <<>>
  ELSE IF IsWordChar(s[i])
       THEN LET e == WordRunEnd(s, i)
            IN  <<Slice(s, i, e)>> \o FindWordsFrom(s, e + 1)
       ELSE FindWordsFrom(s, i + 1)

FindWords(s) == FindWordsFrom(s, 1)

SeqToSet(s) == {s[i] : i \in 1..Len(s)}

(***************************************************************************)
(* fnmatch.fnmatch for patterns over literals, '*' and '?'.                *)
(***************************************************************************)
RECURSIVE GlobFrom(_, _, _, _)
GlobFrom(p, i, s, j) ==
  IF i > Len(p) THEN j > Len(s)
  ELSE IF p[i] = "*"
       THEN \E k \in j..(Len(s) + 1) : GlobFrom(p, i + 1, s, k)
       ELSE IF p[i] = "?"
            THEN j <= Len(s) /\ GlobFrom(p, i + 1, s, j + 1)
            ELSE j <= Len(s) /\ s[j] = p[i] /\ GlobFrom(p, i + 1, s, j + 1)

FnMatch(name, pat) == GlobFrom(pat, 1, name, 1)

(***************************************************************************)
(* re.search for patterns over literals, '.', and the postfix quantifiers  *)
(* '*' and '?'.  A quantifier with nothing to repeat is a re.error.        *)
(***************************************************************************)
IsQuant(c) == c \in {"*", "?"}

ReCompiles(p) ==
  \A i \in 1..Len(p) :
    IsQuant(p[i]) => (i > 1 /\ ~IsQuant(p[i - 1]))

AtomMatches(a, c) == a = "." \/ a = c

RECURSIVE ReHere(_, _, _, _)
ReHere(p, i, s, j) ==
  IF i > Len(p) THEN TRUE
  ELSE IF i < Len(p) /\ p[i + 1] = "*"
       THEN \E k \in j..(Len(s) + 1) :
              /\ \A m \in j..(k - 1) : AtomMatches(p[i], s[m])
              /\ ReHere(p, i + 2, s, k)
       ELSE IF i < Len(p) /\ p[i + 1] = "?"
            THEN \/ ReHere(p, i + 2, s, j)
                 \/ (j <= Len(s) /\ AtomMatches(p[i], s[j])
                       /\ ReHere(p, i + 2, s, j + 1))
            ELSE j <= Len(s) /\ AtomMatches(p[i], s[j])
                   /\ ReHere(p, i + 1, s, j + 1)

ReSearch(p, s) == \E j \in 1..(Len(s) + 1) : ReHere(p, 1, s, j)

\* SearchEngine._match_pattern
MatchPattern(filename, pattern, case_sensitive, regex) ==
  LET fname == IF case_sensitive THEN filename ELSE LowerStr(filename)
      pat   == IF case_sensitive THEN pattern ELSE LowerStr(pattern)
  IN  IF regex
      THEN IF ReCompiles(pat) THEN ReSearch(pat, fname) ELSE FALSE
      ELSE FnMatch(fname, pat)

(***************************************************************************)
(* The file system the engine searches.  A path is a string; the tables    *)
(* give what os.path.basename, os.path.dirname, os.scandir and os.stat     *)
(* return for it.  Files can be deleted while a search runs (gone).        *)
(***************************************************************************)
DirPaths == {"/r", "/r/b", "/r/.h"}
FilePaths == {"/r/a.t", "/r/b/Ab.t", "/r/b/ba", "/r/.h/a.t"}
Deletable == {"/r/b/Ab.t"}

BaseName(p) ==
  CASE p = "/r"        -> <<"r">>
    [] p = "/r/b"      -> <<"b">>
    [] p = "/r/.h"     -> <<".", "h">>
    [] p = "/r/a.t"    -> <<"a", ".", "t">>
    [] p = "/r/b/Ab.t" -> <<"A", "b", ".", "t">>
    [] p = "/r/b/ba"   -> <<"b", "a">>
    [] p = "/r/.h/a.t" -> <<"a", ".", "t">>

DirName(p) ==
  CASE p = "/r"        -> "/"
    [] p = "/r/b"      -> "/r"
    [] p = "/r/.h"     -> "/r"
    [] p = "/r/a.t"    -> "/r"
    [] p = "/r/b/Ab.t" -> "/r/b"
    [] p = "/r/b/ba"   -> "/r/b"
    [] p = "/r/.h/a.t" -> "/r/.h"

\* the entries of a directory in the order os.scandir returns them
SubDirs(d) ==
  CASE d = "/r" -> <<".h", "b">>
    [] OTHER    -> <<>>

DirFiles(d) ==
  CASE d = "/r"    -> <<"/r/a.t">>
    [] d = "/r/b"  -> <<"/r/b/Ab.t", "/r/b/ba">>
    [] d = "/r/.h" -> <<"/r/.h/a.t">>
    [] OTHER       -> <<>>

\* os.path.join(root, d) for a directory entry d of root
JoinDir(root, d) ==
  CASE root = "/r" /\ d = "b"  -> "/r/b"
    [] root = "/r" /\ d = ".h" -> "/r/.h"

\* d.startswith('.') on a directory entry
StartsWithDot(d) == d \in {".h"}

StSize(p) ==
  CASE p = "/r/a.t"    -> 1
    [] p = "/r/b/Ab.t" -> 2
    [] p = "/r/b/ba"   -> 0
    [] p = "/r/.h/a.t" -> 10485761

\* the modification times the files start with
InitialMtime(p) ==
  CASE p = "/r/a.t"    -> 1
    [] p = "/r/b/Ab.t" -> 2
    [] p = "/r/b/ba"   -> 3
    [] p = "/r/.h/a.t" -> 1

VARIABLE mtime       \* the modification time of each file on disk

\* os.path.getmtime(p), and st_mtime of os.stat(p)
StMtime(p) == mtime[p]

\* the lines of a file, and whether _is_text_file accepts it
FileLines(p) ==
  CASE p = "/r/a.t"    -> << <<"b", "a">>, <<"a", "b">> >>
    [] p = "/r/b/Ab.t" -> << <<"t">> >>
    [] p = "/r/b/ba"   -> << >>
    [] p = "/r/.h/a.t" -> << <<"a", "b">> >>

IsTextFile(p) == p \in {"/r/a.t", "/r/b/Ab.t", "/r/.h/a.t"}

max_file_size_for_content_search == 10485760
max_history == 50

\* the truth value Python gives an optional number (None and 0 are false)
Truthy(x) == x # NoneNum /\ x # 0
\* the truth value Python gives an optional string (None and "" are false)
TruthyStr(x) == x # NoneStr /\ x # <<>>

(***************************************************************************)
(* SearchIndex: index maps a word to a set of paths, file_timestamps maps  *)
(* a path to the modification time recorded for it.                        *)
(***************************************************************************)
EmptyMap == [x \in {} |-> {}]

\* IsIndexed asking for a recorded time later than the one on disk
IsIndexedStrict(ts, absent, file_path) ==
  IF file_path \notin DOMAIN ts THEN FALSE
  ELSE IF file_path \in absent THEN FALSE
       ELSE ts[file_path] > StMtime(file_path)

\* SearchIndex.is_indexed
IsIndexed(ts, absent, file_path) ==
  IF file_path \notin DOMAIN ts THEN FALSE
  ELSE IF file_path \in absent THEN FALSE
       ELSE ts[file_path] >= StMtime(file_path)

\* AddFileIndex assigning the posting set of a word instead of adding to it
AddFileIndexOverwrite(idx, file_path) ==
  LET words == SeqToSet(FindWords(LowerStr(BaseName(file_path))))
  IN  [w \in (DOMAIN idx) \cup words |->
         IF w \in words THEN {file_path} ELSE idx[w]]

\* SearchIndex.add_file: the postings of the index after the call
AddFileIndex(idx, file_path) ==
  LET words == SeqToSet(FindWords(LowerStr(BaseName(file_path))))
  IN  [w \in (DOMAIN idx) \cup words |->
         (IF w \in DOMAIN idx THEN idx[w] ELSE {})
           \cup (IF w \in words THEN {file_path} ELSE {})]

\* AddFileTimestamps counting the calls on a path it already holds
AddFileTimestampsBumped(ts, absent, file_path) ==
  IF file_path \in absent THEN ts
  ELSE [p \in (DOMAIN ts) \cup {file_path} |->
          IF p # file_path THEN ts[p]
          ELSE IF p \in DOMAIN ts THEN ts[p] + 1 ELSE StMtime(file_path)]

\* SearchIndex.add_file: the timestamps after the call (getmtime raises
\* OSError for a missing file; the exception is caught and logged)
AddFileTimestamps(ts, absent, file_path) ==
  IF file_path \in absent THEN ts
  ELSE [p \in (DOMAIN ts) \cup {file_path} |->
          IF p = file_path THEN StMtime(file_path) ELSE ts[p]]

\* IntersectAll joining the match sets instead
RECURSIVE IntersectAllJoined(_)
IntersectAllJoined(result_sets) ==
  IF Len(result_sets) = 1 THEN result_sets[1]
  ELSE result_sets[1] \cup IntersectAllJoined(Tail(result_sets))

\* set.intersection(*result_sets) of a non-empty list
RECURSIVE IntersectAll(_)
IntersectAll(result_sets) ==
  IF Len(result_sets) = 1 THEN result_sets[1]
  ELSE result_sets[1] \cap IntersectAll(Tail(result_sets))

\* SearchIndex.search: one match set per query word, then their intersection
IndexSearch(idx, query) ==
  LET query_words == FindWords(LowerStr(query))
      Matches(word) ==
        UNION {idx[indexed_word] :
                 indexed_word \in {w \in DOMAIN idx : IsSubstring(word, w)}}
      result_sets == [k \in 1..Len(query_words) |-> Matches(query_words[k])]
  IN  IF query_words = <<>> THEN {} ELSE IntersectAll(result_sets)

(***************************************************************************)
(* Helpers of SearchEngine.                                                *)
(***************************************************************************)
NoHit == [line |-> NoneStr, num |-> NoneNum]

\* SearchEngine._search_in_file_optimized: the first line containing the
\* (case-adjusted) text, with its 1-based number
SearchInFile(file_path, search_text, case_sensitive, absent) ==
  IF file_path \in absent \/ ~IsTextFile(file_path) THEN NoHit
  ELSE LET lines == FileLines(file_path)
           text == IF case_sensitive THEN search_text ELSE LowerStr(search_text)
           Adj(l) == IF case_sensitive THEN l ELSE LowerStr(l)
           hits == {n \in 1..Len(lines) : IsSubstring(text, Adj(lines[n]))}
       IN  IF hits = {} THEN NoHit
           ELSE LET n == CHOOSE m \in hits : \A k \in hits : m <= k
                IN  [line |-> lines[n], num |-> n]

\* the checks shared by _process_file (lines 260-281) and _matches_criteria
\* once os.stat has succeeded
SizeDateOk(file_path, c) ==
  /\ ~(Truthy(c.size_min) /\ StSize(file_path) < c.size_min)
  /\ ~(Truthy(c.size_max) /\ StSize(file_path) > c.size_max)
  /\ ~(c.date_from # NoneNum /\ StMtime(file_path) < c.date_from)
  /\ ~(c.date_to # NoneNum /\ StMtime(file_path) > c.date_to)

NameTypeOk(file_path, c) ==
  /\ MatchPattern(BaseName(file_path), c.pattern, c.case_sensitive, c.regex)
  /\ ~(TruthyStr(c.file_type)
        /\ ~EndsWith(LowerStr(BaseName(file_path)), LowerStr(c.file_type)))

NoResult ==
  [path |-> None, name |-> NoneStr, size |-> NoneNum, modified |-> NoneNum,
   directory |-> None, match_type |-> None, match_line |-> NoneStr,
   match_line_number |-> NoneNum]

MkResult(file_path, match_type, hit) ==
  [path |-> file_path, name |-> BaseName(file_path), size |-> StSize(file_path),
   modified |-> StMtime(file_path), directory |-> DirName(file_path),
   match_type |-> match_type, match_line |-> hit.line,
   match_line_number |-> hit.num]

\* SearchEngine._matches_criteria (an OSError of os.stat gives False)
MatchesCriteria(file_path, c, absent) ==
  /\ NameTypeOk(file_path, c)
  /\ file_path \notin absent
  /\ SizeDateOk(file_path, c)

\* TooLargeForContent without the limit
TooLargeForContentNever(file_path) == FALSE

\* line 289: the file is too large for its content to be searched
TooLargeForContent(file_path) ==
  StSize(file_path) > max_file_size_for_content_search

\* ContentFallbackOk without the test of the name
ContentFallbackAny(file_path, c) == TRUE

\* line 297: the base name matches content_search taken as a name pattern
ContentFallbackOk(file_path, c) ==
  MatchPattern(BaseName(file_path), c.content_search, c.case_sensitive, c.regex)

\* SearchEngine._process_file: status "raise" is the OSError of os.stat,
\* "accept" appends res to the results and returns True, "reject" returns False
ProcessFile(file_path, c, absent) ==
  IF ~NameTypeOk(file_path, c) THEN [status |-> "reject", res |-> NoResult]
  ELSE IF file_path \in absent THEN [status |-> "raise", res |-> NoResult]
  ELSE IF ~SizeDateOk(file_path, c) THEN [status |-> "reject", res |-> NoResult]
  ELSE IF TruthyStr(c.content_search) /\ ~TooLargeForContent(file_path)
       THEN LET hit == SearchInFile(file_path, c.content_search,
                                    c.case_sensitive, absent)
            IN  IF hit.line # NoneStr
                THEN [status |-> "accept", res |-> MkResult(file_path, "content", hit)]
                ELSE IF ~ContentFallbackOk(file_path, c)
                     THEN [status |-> "reject", res |-> NoResult]
                     ELSE [status |-> "accept",
                           res |-> MkResult(file_path, "filename", hit)]
       ELSE [status |-> "accept", res |-> MkResult(file_path, "filename", NoHit)]

\* what one step of os.walk yields for directory d: its files that still
\* exist, and its sub-directories (the caller prunes those starting with '.')
ListFiles(d, absent) == SelectSeq(DirFiles(d), LAMBDA f : f \notin absent)

\* PrunedDirs without the filter of line 222
UnprunedDirs(d) == [k \in 1..Len(SubDirs(d)) |-> JoinDir(d, SubDirs(d)[k])]

PrunedDirs(d) ==
  LET kept == SelectSeq(SubDirs(d), LAMBDA n : ~StartsWithDot(n))
  IN  [k \in 1..Len(kept) |-> JoinDir(d, kept[k])]

AllDirs(d) == [k \in 1..Len(SubDirs(d)) |-> JoinDir(d, SubDirs(d)[k])]

\* SearchEngine._estimate_file_count: a walk without pruning; it stops at
\* once when the cancellation flag is set
RECURSIVE CountFiles(_, _)
CountFiles(todo, absent) ==
  IF todo = <<>> THEN 0
  ELSE Len(ListFiles(Head(todo), absent))
         + CountFiles(AllDirs(Head(todo)) \o Tail(todo), absent)

EstimateFileCount(root_path, cancelled, absent) ==
  IF cancelled THEN 0 ELSE CountFiles(<<root_path>>, absent)

(***************************************************************************)
(* The arguments of search_files.                                          *)
(***************************************************************************)
RootPaths == {"/r", "/r/b", "/r/.h", "/nx", "/r/a.t"}
Patterns == {<<"*">>, <<"a", "*">>, <<"*", ".", "t">>}

DefaultArgs ==
  [root_path |-> "/r", pattern |-> <<"*">>, content_search |-> NoneStr,
   file_type |-> NoneStr, size_min |-> NoneNum, size_max |-> NoneNum,
   date_from |-> NoneNum, date_to |-> NoneNum, case_sensitive |-> FALSE,
   regex |-> FALSE, max_results |-> MaxResultsArg, use_index |-> TRUE,
   progress_callback |-> None]

\* the arguments a lone caller draws from
Inputs ==
  {[DefaultArgs EXCEPT !.root_path = r, !.pattern = p, !.use_index = u,
                       !.max_results = m] :
     r \in {"/r", "/r/b"}, p \in Patterns, u \in BOOLEAN, m \in 0..MaxResultsArg}
  \cup {[DefaultArgs EXCEPT !.root_path = r, !.use_index = u] :
          r \in RootPaths, u \in BOOLEAN}
  \cup {[DefaultArgs EXCEPT !.pattern = p, !.case_sensitive = cs, !.regex = re,
                            !.use_index = FALSE] :
          p \in Patterns, cs \in BOOLEAN, re \in BOOLEAN}
  \cup {[DefaultArgs EXCEPT !.content_search = cn, !.use_index = u] :
          cn \in {<<>>, <<"a">>, <<"a", "*">>}, u \in BOOLEAN}
  \cup {[DefaultArgs EXCEPT !.pattern = <<"a", "*">>,
                            !.progress_callback = cb, !.use_index = u] :
          cb \in {"ok", "raise"}, u \in BOOLEAN}
  \cup {[DefaultArgs EXCEPT !.file_type = <<".", "T">>, !.size_min = lo,
                            !.size_max = hi, !.use_index = u] :
          lo \in {NoneNum, 0, 1}, hi \in {NoneNum, 0, 1}, u \in BOOLEAN}
  \cup {[DefaultArgs EXCEPT !.date_from = lo, !.date_to = hi, !.use_index = u] :
          lo \in {NoneNum, 2}, hi \in {NoneNum, 2}, u \in BOOLEAN}
  \cup {[DefaultArgs EXCEPT !.root_path = "/r/.h", !.content_search = <<"a">>,
                            !.use_index = FALSE]}
  \cup {[DefaultArgs EXCEPT !.pattern = <<"a", "*">>, !.size_max = hi] :
          hi \in {0, 1}}

\* the arguments each of two callers sharing the engine draws from
SharedInputs ==
  {[DefaultArgs EXCEPT !.pattern = <<"a", "*">>, !.use_index = u,
                       !.max_results = 1] : u \in BOOLEAN}
  \cup {[DefaultArgs EXCEPT !.root_path = "/nx"],
        [DefaultArgs EXCEPT !.root_path = "/r/.h", !.pattern = <<"a", "*">>],
        [DefaultArgs EXCEPT !.content_search = <<"a">>],
        [DefaultArgs EXCEPT !.pattern = <<"a", "*">>,
                            !.progress_callback = "raise"]}

(***************************************************************************)
(* State.                                                                  *)
(***************************************************************************)
VARIABLES
  callers,           \* the threads that call search_files in this run
  search_history,    \* SearchEngine.search_history
  now,               \* the clock read by datetime.now() at a history append
  cancel_event,      \* SearchEngine._cancel_event
  search_lock,       \* SearchEngine._search_lock: None or the holding thread
  index,             \* SearchEngine.index.index
  file_timestamps,   \* SearchEngine.index.file_timestamps
  indexing_enabled,  \* SearchEngine.indexing_enabled
  gone,              \* the files deleted from the file system
  pc,                \* where each thread is in search_files
  call,              \* the arguments of each thread's invocation
  loc,               \* the local variables of each thread's invocation
  outcome,           \* how each thread's invocation ended
  obs,               \* history variables about each thread's invocation
  ixop,              \* the last direct call on the SearchIndex, with its result
  hist_base          \* the value of now at the last clear_history

vars == <<callers, mtime, ixop, hist_base, search_history, now, cancel_event, search_lock, index,
          file_timestamps, indexing_enabled, gone, pc, call, loc, outcome, obs>>

InitLoc ==
  [results |-> <<>>, search_count |-> 0, total_files |-> 0, todo |-> <<>>,
   files |-> <<>>, files_to_index |-> <<>>, i |-> 0, candidate_files |-> {},
   ncand |-> 0]

\* ran: the strategies started; hist: history appends made; pending: the
\* flag was set when the invocation started; cancelled: cancel_search ran
\* since the invocation started; late: where the invocation was when
\* cancel_search first ran after its entry clear (a result was already
\* accepted, or none was and a file was being processed, or none was and no
\* file was being processed); saw: where the invocation
\* observed the flag set; adds: add_file calls made; cbs: progress callbacks
\* made; fs_changed: a file was deleted since the invocation started;
\* ix_cleared: clear_index ran since the invocation started; skipped: the
\* files the walk skipped on an OSError
NoLate == "none"

InitObs ==
  [ran |-> <<>>, hist |-> 0, pending |-> FALSE, cancelled |-> FALSE,
   late |-> NoLate, saw |-> None, adds |-> 0, cbs |-> 0, fs_changed |-> FALSE,
   ix_cleared |-> FALSE, skipped |-> 0]

\* no direct call on the SearchIndex was made since the file system changed
NoOp ==
  [name |-> "none", path |-> None, failed |-> FALSE, repeat |-> FALSE,
   query |-> NoneStr, result |-> {}, orders |-> <<>>, built |-> <<>>,
   max_results |-> 0, count |-> 0]

\* the engine apart from its history
InitRest ==
  /\ cancel_event = FALSE
  /\ search_lock = None
  /\ index = EmptyMap
  /\ file_timestamps = EmptyMap
  /\ indexing_enabled \in BOOLEAN
  /\ gone = {}
  /\ pc = [t \in Threads |-> "idle"]
  /\ call = [t \in Threads |-> DefaultArgs]
  /\ loc = [t \in Threads |-> InitLoc]
  /\ outcome = [t \in Threads |-> None]
  /\ obs = [t \in Threads |-> InitObs]
  /\ mtime = [p \in FilePaths |-> InitialMtime(p)]
  /\ ixop = NoOp

InitEngine ==
  /\ search_history = <<>>
  /\ now = 0
  /\ hist_base = 0
  /\ InitRest

\* one caller
Init == callers = {"t1"} /\ InitEngine

\* two callers share the engine
InitShared == callers = Threads /\ InitEngine

Exists(p) == p \in DirPaths \/ (p \in FilePaths /\ p \notin gone)
\* IsDir without the test
IsDirAny(p) == TRUE
IsDir(p) == p \in DirPaths

engineVars == <<callers, mtime, ixop, hist_base, search_history, now, cancel_event, index, file_timestamps>>

(***************************************************************************)
(* search_files, lines 127-131: the checks of root_path.                   *)
(***************************************************************************)
CallFrom(t, inputs) ==
  /\ pc[t] = "idle"
  /\ t \in callers
  /\ \E c \in inputs :
       /\ call' = [call EXCEPT ![t] = c]
       /\ IF ~Exists(c.root_path)
          THEN /\ pc' = [pc EXCEPT ![t] = "done"]
               /\ outcome' = [outcome EXCEPT ![t] = "SearchError_no_root"]
          ELSE IF ~IsDir(c.root_path)
               THEN /\ pc' = [pc EXCEPT ![t] = "done"]
                    /\ outcome' = [outcome EXCEPT ![t] = "SearchError_not_dir"]
               ELSE /\ pc' = [pc EXCEPT ![t] = "acquire"]
                    /\ UNCHANGED outcome
  /\ obs' = [obs EXCEPT ![t].pending = cancel_event]
  /\ UNCHANGED <<engineVars, search_lock, indexing_enabled, gone, loc>>

\* a caller invokes search_files
Call(t) == CallFrom(t, IF callers = {"t1"} THEN Inputs ELSE SharedInputs)

\* Acquire without waiting for the lock to be free
AcquireNoWait(t) ==
  /\ pc[t] = "acquire"
  /\ search_lock' = t
  /\ pc' = [pc EXCEPT ![t] = "clear"]
  /\ UNCHANGED <<engineVars, indexing_enabled, gone, call, loc, outcome, obs>>

\* line 133: with self._search_lock
Acquire(t) ==
  /\ pc[t] = "acquire"
  /\ search_lock = None
  /\ search_lock' = t
  /\ pc' = [pc EXCEPT ![t] = "clear"]
  /\ UNCHANGED <<engineVars, indexing_enabled, gone, call, loc, outcome, obs>>

\* ClearCancel that leaves the flag as it was
ClearCancelKept(t) ==
  /\ pc[t] = "clear"
  /\ cancel_event' = cancel_event
  /\ pc' = [pc EXCEPT ![t] = "history"]
  /\ UNCHANGED <<callers, mtime, ixop, hist_base, search_history, now, index, file_timestamps,
                 search_lock, indexing_enabled, gone, call, loc, outcome, obs>>

\* line 134: self._cancel_event.clear()
ClearCancel(t) ==
  /\ pc[t] = "clear"
  /\ cancel_event' = FALSE
  /\ pc' = [pc EXCEPT ![t] = "history"]
  /\ UNCHANGED <<callers, mtime, ixop, hist_base, search_history, now, index, file_timestamps, search_lock,
                 indexing_enabled, gone, call, loc, outcome, obs>>

\* Evict dropping the newest descriptor
EvictNewest(appended) ==
  IF Len(appended) > max_history THEN SubSeq(appended, 1, max_history)
  ELSE appended

\* lines 485-486: pop(0) once the list is longer than max_history
Evict(appended) ==
  IF Len(appended) > max_history THEN Tail(appended) ELSE appended

\* AddToHistory that forgets the append
AddToHistoryLost(history, search_info) == history

\* SearchEngine._add_to_history
AddToHistory(history, search_info) == Evict(Append(history, search_info))

\* lines 138-144
RecordHistory(t) ==
  /\ pc[t] = "history"
  /\ search_history' =
       AddToHistory(search_history,
                    [pattern |-> call[t].pattern,
                     content_search |-> call[t].content_search,
                     timestamp |-> now + 1,
                     root_path |-> call[t].root_path,
                     file_type |-> call[t].file_type])
  /\ now' = now + 1
  /\ obs' = [obs EXCEPT ![t].hist =
                 IF search_history' # <<>>
                      /\ search_history'[Len(search_history')].timestamp = now + 1
                 THEN @ + 1 ELSE @]
  /\ pc' = [pc EXCEPT ![t] = "select"]
  /\ UNCHANGED <<callers, mtime, ixop, hist_base, cancel_event, index, file_timestamps, search_lock,
                 indexing_enabled, gone, call, loc, outcome>>

\* UseIndexedStrategy that forgets content_search
UseIndexedStrategyAnyContent(c, enabled) == c.use_index /\ enabled

\* line 147: the choice between _search_with_index and _search_filesystem
UseIndexedStrategy(c, enabled) ==
  c.use_index /\ enabled /\ ~TruthyStr(c.content_search)

\* lines 147-158, up to the first loop of the strategy chosen
SelectStrategy(t) ==
  /\ pc[t] = "select"
  /\ IF UseIndexedStrategy(call[t], indexing_enabled)
     THEN /\ obs' = [obs EXCEPT ![t].ran = Append(@, "index")]
          /\ loc' = [loc EXCEPT ![t].todo = <<call[t].root_path>>]
          /\ pc' = [pc EXCEPT ![t] = IF indexing_enabled THEN "upd_walk"
                                                         ELSE "ix_check"]
     ELSE /\ obs' = [obs EXCEPT ![t].ran = Append(@, "filesystem")]
          /\ loc' = [loc EXCEPT
                       ![t].todo = <<call[t].root_path>>,
                       ![t].total_files =
                          IF call[t].progress_callback # None
                          THEN EstimateFileCount(call[t].root_path,
                                                 cancel_event, gone)
                          ELSE 0]
          /\ pc' = [pc EXCEPT ![t] = "fs_walk"]
  /\ UNCHANGED <<engineVars, search_lock, indexing_enabled, gone, call, outcome>>

\* a cancelled refresh that raises
OnRefreshCancelRaises == "raise"

\* a cancelled walk that raises
OnWalkCancelRaises == "raise"

\* where _update_index goes when it sees the flag set (lines 445-446 and
\* 460-461: return, to line 176)
OnRefreshCancel == "ix_check"

\* where _search_filesystem goes when its directory loop sees the flag set
\* (lines 218-219: break, to the return of line 251)
OnWalkCancel == "ret"

\* whether the progress callback is due at count n with cadence every
CallbackDue(c, n, every) == c.progress_callback # None /\ n % every = 0

(***************************************************************************)
(* _update_index, lines 444-456: one directory of the refresh walk.        *)
(***************************************************************************)
UpdWalk(t) ==
  /\ pc[t] = "upd_walk"
  /\ IF loc[t].todo = <<>>
     THEN /\ pc' = [pc EXCEPT ![t] = "upd_add"]
          /\ loc' = [loc EXCEPT ![t].i = 0]
          /\ UNCHANGED obs
     ELSE IF cancel_event
          THEN /\ pc' = [pc EXCEPT ![t] = OnRefreshCancel]
               /\ obs' = [obs EXCEPT ![t].saw = "upd_walk"]
               /\ UNCHANGED loc
          ELSE LET d == Head(loc[t].todo)
                   stale == SelectSeq(ListFiles(d, gone),
                              LAMBDA f : ~IsIndexed(file_timestamps, gone, f))
               IN  /\ loc' = [loc EXCEPT
                                ![t].todo = PrunedDirs(d) \o Tail(@),
                                ![t].files_to_index = @ \o stale]
                   /\ UNCHANGED <<pc, obs>>
  /\ UNCHANGED <<engineVars, search_lock, indexing_enabled, gone, call, outcome>>

\* _update_index, lines 459-466: one file of files_to_index
UpdAdd(t) ==
  /\ pc[t] = "upd_add"
  /\ IF loc[t].i >= Len(loc[t].files_to_index)
     THEN /\ pc' = [pc EXCEPT ![t] = "ix_check"]
          /\ UNCHANGED <<index, file_timestamps, loc, obs>>
     ELSE IF cancel_event
          THEN /\ pc' = [pc EXCEPT ![t] = OnRefreshCancel]
               /\ obs' = [obs EXCEPT ![t].saw = "upd_add"]
               /\ UNCHANGED <<index, file_timestamps, loc>>
          ELSE LET file_path == loc[t].files_to_index[loc[t].i + 1]
                   due == CallbackDue(call[t], loc[t].i, 100)
               IN  /\ index' = AddFileIndex(index, file_path)
                   /\ file_timestamps' =
                        AddFileTimestamps(file_timestamps, gone, file_path)
                   /\ obs' = [obs EXCEPT ![t].adds = @ + 1,
                                         ![t].cbs = IF due THEN @ + 1 ELSE @]
                   /\ loc' = [loc EXCEPT ![t].i = @ + 1]
                   /\ pc' = [pc EXCEPT ![t] =
                               IF due /\ call[t].progress_callback = "raise"
                               THEN "raise" ELSE "upd_add"]
  /\ UNCHANGED <<callers, mtime, ixop, hist_base, search_history, now, cancel_event, search_lock,
                 indexing_enabled, gone, call, outcome>>

\* _search_with_index, lines 176-181
IxCheck(t) ==
  /\ pc[t] = "ix_check"
  /\ IF cancel_event
     THEN /\ pc' = [pc EXCEPT ![t] = "ret"]
          /\ obs' = [obs EXCEPT ![t].saw = IF @ = None THEN "ix_check" ELSE @]
          /\ loc' = [loc EXCEPT ![t].results = <<>>]
     ELSE LET found == IndexSearch(index, call[t].pattern)
          IN  /\ loc' = [loc EXCEPT ![t].candidate_files = found,
                                    ![t].ncand = Cardinality(found),
                                    ![t].results = <<>>,
                                    ![t].i = 0]
              /\ pc' = [pc EXCEPT ![t] = "ix_loop"]
              /\ UNCHANGED obs
  /\ UNCHANGED <<engineVars, search_lock, indexing_enabled, gone, call, outcome>>

\* LoopBreaks with > for >=
LoopBreaksLate(cancelled, results, max_results) ==
  cancelled \/ Len(results) > max_results

\* LoopBreaks without the test of the flag
LoopBreaksDeaf(cancelled, results, max_results) ==
  Len(results) >= max_results

\* whether a loop stops before taking its next item (lines 184 and 225)
LoopBreaks(cancelled, results, max_results) ==
  cancelled \/ Len(results) >= max_results

\* _search_with_index, lines 183-203: one candidate, in set order
IxLoop(t) ==
  /\ pc[t] = "ix_loop"
  /\ IF loc[t].candidate_files = {}
     THEN /\ pc' = [pc EXCEPT ![t] = "ret"]
          /\ UNCHANGED <<loc, obs>>
     ELSE IF LoopBreaks(cancel_event, loc[t].results, call[t].max_results)
          THEN /\ pc' = [pc EXCEPT ![t] = "ret"]
               /\ obs' = [obs EXCEPT ![t].saw =
                            IF cancel_event THEN "ix_loop" ELSE @]
               /\ UNCHANGED loc
          ELSE \E file_path \in loc[t].candidate_files :
                 LET ok == MatchesCriteria(file_path, call[t], gone)
                     due == CallbackDue(call[t], loc[t].i, 100)
                 IN  /\ loc' = [loc EXCEPT
                                  ![t].results =
                                     IF ok
                                     THEN Append(@, MkResult(file_path,
                                                             "filename", NoHit))
                                     ELSE @,
                                  ![t].candidate_files = @ \ {file_path},
                                  ![t].i = @ + 1]
                     /\ obs' = [obs EXCEPT ![t].cbs = IF due THEN @ + 1 ELSE @]
                     /\ pc' = [pc EXCEPT ![t] =
                                 IF due /\ call[t].progress_callback = "raise"
                                 THEN "raise" ELSE "ix_loop"]
  /\ UNCHANGED <<engineVars, search_lock, indexing_enabled, gone, call, outcome>>

(***************************************************************************)
(* _search_filesystem, lines 217-222: the next directory of os.walk.       *)
(***************************************************************************)
FsWalk(t) ==
  /\ pc[t] = "fs_walk"
  /\ IF loc[t].todo = <<>>
     THEN /\ pc' = [pc EXCEPT ![t] = "ret"]
          /\ UNCHANGED <<loc, obs>>
     ELSE IF cancel_event
          THEN /\ pc' = [pc EXCEPT ![t] = OnWalkCancel]
               /\ obs' = [obs EXCEPT ![t].saw = "fs_walk"]
               /\ UNCHANGED loc
          ELSE LET d == Head(loc[t].todo)
               IN  /\ loc' = [loc EXCEPT ![t].todo = PrunedDirs(d) \o Tail(@),
                                         ![t].files = ListFiles(d, gone)]
                   /\ pc' = [pc EXCEPT ![t] = "fs_file"]
                   /\ UNCHANGED obs
  /\ UNCHANGED <<engineVars, search_lock, indexing_enabled, gone, call, outcome>>

\* lines 224-233: the loop test and the progress report for the next file
FsFile(t) ==
  /\ pc[t] = "fs_file"
  /\ IF loc[t].files = <<>>
     THEN /\ pc' = [pc EXCEPT ![t] = "fs_walk"]
          /\ UNCHANGED <<loc, obs>>
     ELSE IF LoopBreaks(cancel_event, loc[t].results, call[t].max_results)
          THEN /\ pc' = [pc EXCEPT ![t] = "fs_walk"]
               /\ obs' = [obs EXCEPT ![t].saw =
                            IF cancel_event THEN "fs_file" ELSE @]
               /\ UNCHANGED loc
          ELSE LET due == CallbackDue(call[t], loc[t].search_count + 1, 50)
               IN  /\ loc' = [loc EXCEPT ![t].search_count = @ + 1]
                   /\ obs' = [obs EXCEPT ![t].cbs = IF due THEN @ + 1 ELSE @]
                   /\ pc' = [pc EXCEPT ![t] =
                               IF due /\ call[t].progress_callback = "raise"
                               THEN "raise" ELSE "fs_proc"]
  /\ UNCHANGED <<engineVars, search_lock, indexing_enabled, gone, call, outcome>>

\* an OSError of an item that ends the walk
OnItemErrorRaises == "raise"

\* where the file loop goes when _process_file raises OSError (lines
\* 243-245: continue, to the next file)
OnItemError == "fs_file"

\* AddsToIndex without the test of the value _process_file returned
AddsToIndexAlways(status, enabled) == enabled

\* lines 237-241: add_file is called for a file _process_file accepted,
\* when indexing is enabled
AddsToIndex(status, enabled) == status = "accept" /\ enabled

\* lines 235-245: _process_file on the file, then index.add_file
FsProc(t) ==
  /\ pc[t] = "fs_proc"
  /\ LET file_path == Head(loc[t].files)
         r == ProcessFile(file_path, call[t], gone)
         indexed == AddsToIndex(r.status, indexing_enabled)
     IN  /\ loc' = [loc EXCEPT
                      ![t].results = IF r.status = "accept"
                                     THEN Append(@, r.res) ELSE @,
                      ![t].files = Tail(@)]
         /\ index' = IF indexed THEN AddFileIndex(index, file_path) ELSE index
         /\ file_timestamps' =
              IF indexed
              THEN AddFileTimestamps(file_timestamps, gone, file_path)
              ELSE file_timestamps
         /\ obs' = [obs EXCEPT ![t].adds = IF indexed THEN @ + 1 ELSE @,
                               ![t].skipped =
                                  IF r.status = "raise" THEN @ + 1 ELSE @]
         /\ pc' = [pc EXCEPT ![t] = IF r.status = "raise" THEN OnItemError
                                    ELSE "fs_file"]
  /\ UNCHANGED <<callers, mtime, ixop, hist_base, search_history, now, cancel_event, search_lock,
                 indexing_enabled, gone, call, outcome>>

\* lines 160-162: the with block is left by return; the locals die and
\* loc keeps only the list returned
Return(t) ==
  /\ pc[t] = "ret"
  /\ search_lock' = None
  /\ outcome' = [outcome EXCEPT ![t] = "return"]
  /\ pc' = [pc EXCEPT ![t] = "done"]
  /\ loc' = [loc EXCEPT ![t] = [InitLoc EXCEPT !.results = loc[t].results]]
  /\ UNCHANGED <<engineVars, indexing_enabled, gone, call, obs>>

\* Raise that leaves the lock held
RaiseHolding(t) ==
  /\ pc[t] = "raise"
  /\ outcome' = [outcome EXCEPT ![t] = "SearchError_failed"]
  /\ pc' = [pc EXCEPT ![t] = "done"]
  /\ loc' = [loc EXCEPT ![t] = InitLoc]
  /\ UNCHANGED <<engineVars, search_lock, indexing_enabled, gone, call, obs>>

\* lines 164-166 (and 247-249): an exception of the strategy is wrapped in
\* SearchError and leaves the with block; no list is returned
Raise(t) ==
  /\ pc[t] = "raise"
  /\ search_lock' = None
  /\ outcome' = [outcome EXCEPT ![t] = "SearchError_failed"]
  /\ pc' = [pc EXCEPT ![t] = "done"]
  /\ loc' = [loc EXCEPT ![t] = InitLoc]
  /\ UNCHANGED <<engineVars, indexing_enabled, gone, call, obs>>

InCall(t) == pc[t] \notin {"idle", "done"}
PastClear(t) == pc[t] \notin {"idle", "done", "acquire", "clear"}

\* SearchEngine.cancel_search
CancelSearch ==
  /\ cancel_event' = TRUE
  /\ obs' = [t \in Threads |->
               [obs[t] EXCEPT
                  !.cancelled = IF InCall(t) THEN TRUE ELSE @,
                  !.late = IF PastClear(t) /\ @ = NoLate
                           THEN (IF loc[t].results # <<>> THEN "after_result"
                                 ELSE IF pc[t] = "fs_proc" THEN "in_file"
                                 ELSE "before_file")
                           ELSE @]]
  /\ UNCHANGED <<callers, mtime, ixop, hist_base, search_history, now, index, file_timestamps, search_lock,
                 indexing_enabled, gone, pc, call, loc, outcome>>

\* SearchEngine.clear_index
ClearIndex ==
  /\ index # EmptyMap \/ file_timestamps # EmptyMap
  /\ index' = EmptyMap
  /\ file_timestamps' = EmptyMap
  /\ obs' = [t \in Threads |->
               [obs[t] EXCEPT !.ix_cleared = IF pc[t] # "idle" THEN TRUE ELSE @]]
  /\ UNCHANGED <<callers, mtime, ixop, hist_base, search_history, now, cancel_event, search_lock,
                 indexing_enabled, gone, pc, call, loc, outcome>>

\* another process deletes a file
DeleteFile ==
  /\ \E f \in Deletable \ gone : gone' = gone \cup {f}
  /\ obs' = [t \in Threads |->
               [obs[t] EXCEPT !.fs_changed = IF pc[t] # "idle" THEN TRUE ELSE @]]
  /\ ixop' = NoOp
  /\ UNCHANGED <<callers, mtime, hist_base, search_history, now, cancel_event,
                 index, file_timestamps, search_lock, indexing_enabled, pc,
                 call, loc, outcome>>

\* the steps of the threads and the other calls on the engine
EngineNext ==
  \/ \E t \in Threads : Call(t)
  \/ \E t \in Threads : Acquire(t)
  \/ \E t \in Threads : ClearCancel(t)
  \/ \E t \in Threads : RecordHistory(t)
  \/ \E t \in Threads : SelectStrategy(t)
  \/ \E t \in Threads : UpdWalk(t)
  \/ \E t \in Threads : UpdAdd(t)
  \/ \E t \in Threads : IxCheck(t)
  \/ \E t \in Threads : IxLoop(t)
  \/ \E t \in Threads : FsWalk(t)
  \/ \E t \in Threads : FsFile(t)
  \/ \E t \in Threads : FsProc(t)
  \/ \E t \in Threads : Return(t)
  \/ \E t \in Threads : Raise(t)
  \/ CancelSearch
  \/ ClearIndex

Next == EngineNext \/ DeleteFile

\* one caller, on a file system that can lose a file at any time
Spec == Init /\ [][Next]_vars

\* two callers share the engine, on a file system that does not change
SpecShared == InitShared /\ [][EngineNext]_vars

\* the steps of the invocation of thread t once it has started
ThreadStep(t) ==
  \/ Acquire(t)
  \/ ClearCancel(t)
  \/ RecordHistory(t)
  \/ SelectStrategy(t)
  \/ UpdWalk(t)
  \/ UpdAdd(t)
  \/ IxCheck(t)
  \/ IxLoop(t)
  \/ FsWalk(t)
  \/ FsFile(t)
  \/ FsProc(t)
  \/ Return(t)
  \/ Raise(t)

\* the arguments of the callers whose progress is examined: a search that
\* returns, and a search whose progress callback raises when the index is
\* refreshed
LiveInputs ==
  {[DefaultArgs EXCEPT !.root_path = "/r/b", !.pattern = <<"a", "*">>],
   [DefaultArgs EXCEPT !.root_path = "/r/b", !.progress_callback = "raise"]}

LiveNext ==
  \/ \E t \in Threads : CallFrom(t, LiveInputs)
  \/ \E t \in Threads : ThreadStep(t)
  \/ CancelSearch

\* two callers share the engine; a thread that can take its next step
\* eventually takes it
SpecLive ==
  /\ InitShared
  /\ [][LiveNext]_vars
  /\ \A t \in Threads : WF_vars(ThreadStep(t))

(***************************************************************************)
(* The history of an engine that has recorded max_history invocations      *)
(* before: one caller invokes search_files again and again while           *)
(* clear_history is called.                                                *)
(***************************************************************************)
\* how many more invocations are recorded
MaxRecorded == 2

\* the histories the run starts with: the last n of the max_history
\* invocations recorded so far, the history having been cleared before them
Prefilled(n) ==
  [k \in 1..n |->
     [pattern |-> DefaultArgs.pattern,
      content_search |-> DefaultArgs.content_search,
      timestamp |-> max_history - n + k,
      root_path |-> DefaultArgs.root_path,
      file_type |-> DefaultArgs.file_type]]

InitHistory ==
  /\ callers = {"t2"}
  /\ now = max_history
  /\ \E n \in {0, max_history - 1, max_history} :
       search_history = Prefilled(n) /\ hist_base = max_history - n
  /\ InitRest

\* SearchEngine.clear_history
ClearHistory ==
  /\ search_history # <<>>
  /\ search_history' = <<>>
  /\ hist_base' = now
  /\ UNCHANGED <<callers, mtime, ixop, now, cancel_event, search_lock, index,
                 file_timestamps, indexing_enabled, gone, pc, call, loc,
                 outcome, obs>>

\* the caller is ready for its next invocation
Again(t) ==
  /\ pc[t] = "done"
  /\ now < max_history + MaxRecorded
  /\ pc' = [pc EXCEPT ![t] = "idle"]
  /\ call' = [call EXCEPT ![t] = DefaultArgs]
  /\ loc' = [loc EXCEPT ![t] = InitLoc]
  /\ outcome' = [outcome EXCEPT ![t] = None]
  /\ obs' = [obs EXCEPT ![t] = InitObs]
  /\ UNCHANGED <<engineVars, search_lock, indexing_enabled, gone>>

HistoryNext ==
  \/ EngineNext
  \/ ClearHistory
  \/ \E t \in Threads : Again(t)

SpecHistory == InitHistory /\ [][HistoryNext]_vars

(***************************************************************************)
(* The SearchIndex called directly: add_file, search and is_indexed on a   *)
(* fresh index, while files are modified and deleted.                      *)
(***************************************************************************)
\* how often a file is modified
MaxTouch == 1

\* the files another process modifies
Touchable == {"/r/a.t"}

\* the queries passed to SearchIndex.search
Queries ==
  {<<"a">>, <<"T">>, <<"*">>, <<"a", ".", "t">>, <<"b", ".", "a">>,
   <<"b", "*", "t">>}

\* the orders in which the files of S can be added
Orders(S) ==
  {o \in [1..Cardinality(S) -> S] : \A f \in S : \E k \in DOMAIN o : o[k] = f}

\* add_file on each file of order in turn, from the index ix
RECURSIVE AddFiles(_, _)
AddFiles(ix, order) ==
  IF order = <<>> THEN ix
  ELSE AddFiles([index |-> AddFileIndex(ix.index, Head(order)),
                 file_timestamps |->
                   AddFileTimestamps(ix.file_timestamps, gone, Head(order))],
                Tail(order))

FreshIndex == [index |-> EmptyMap, file_timestamps |-> EmptyMap]

\* SearchIndex.add_file(f)
IndexAddFile ==
  \E f \in FilePaths :
    /\ index' = AddFileIndex(index, f)
    /\ file_timestamps' = AddFileTimestamps(file_timestamps, gone, f)
    /\ ixop' = [NoOp EXCEPT !.name = "add_file", !.path = f,
                            !.failed = f \in gone,
                            !.repeat = ixop.name = "add_file" /\ ixop.path = f]
    /\ UNCHANGED <<callers, mtime, hist_base, search_history, now,
                   cancel_event, search_lock, indexing_enabled, gone, pc,
                   call, loc, outcome, obs>>

\* SearchIndex.search(q)
IndexSearchCall ==
  \E q \in Queries :
    /\ ixop' = [NoOp EXCEPT !.name = "search", !.query = q,
                            !.result = IndexSearch(index, q)]
    /\ UNCHANGED <<callers, mtime, hist_base, search_history, now,
                   cancel_event, search_lock, index, file_timestamps,
                   indexing_enabled, gone, pc, call, loc, outcome, obs>>

\* the same files added to two fresh indexes, in two orders
IndexBuild ==
  /\ index = EmptyMap /\ file_timestamps = EmptyMap /\ ixop = NoOp
  /\ \E S \in (SUBSET FilePaths) \ {{}} : \E o1, o2 \in Orders(S) :
       ixop' = [NoOp EXCEPT !.name = "build", !.orders = <<o1, o2>>,
                            !.built = <<AddFiles(FreshIndex, o1),
                                        AddFiles(FreshIndex, o2)>>]
  /\ UNCHANGED <<callers, mtime, hist_base, search_history, now,
                 cancel_event, search_lock, index, file_timestamps,
                 indexing_enabled, gone, pc, call, loc, outcome, obs>>

\* another process modifies a file
TouchFile ==
  /\ \E f \in Touchable :
       /\ mtime[f] < InitialMtime(f) + MaxTouch
       /\ mtime' = [mtime EXCEPT ![f] = @ + 1]
  /\ ixop' = NoOp
  /\ UNCHANGED <<callers, hist_base, search_history, now, cancel_event,
                 search_lock, index, file_timestamps, indexing_enabled, gone,
                 pc, call, loc, outcome, obs>>

\* the roots and the queries passed to quick_search
QuickRoots == {"/r", "/r/b", "/nx"}
QuickQueries == {<<"a">>, <<"B">>, <<"t">>}

\* QuickCap without the slice
QuickCapAll(S, max_results) == {S}

\* line 512, list(indexed_results)[:max_results]: the sets of paths the
\* slice can hold, the order of the elements of a set being arbitrary
QuickCap(S, max_results) ==
  {R \in SUBSET S :
     Cardinality(R) = IF max_results <= Cardinality(S) THEN max_results
                      ELSE Cardinality(S)}

\* os.walk without pruning: the sub-directories of d
WalkDirs(d) == [k \in 1..Len(SubDirs(d)) |-> JoinDir(d, SubDirs(d)[k])]

\* lines 520-524: the items of one directory, from the results so far
RECURSIVE QuickItems(_, _, _, _)
QuickItems(items, query_lower, max_results, results) ==
  IF items = <<>> THEN results
  ELSE IF IsSubstring(query_lower, LowerStr(BaseName(Head(items))))
       THEN LET more == Append(results, Head(items))
            IN  IF Len(more) >= max_results THEN more
                ELSE QuickItems(Tail(items), query_lower, max_results, more)
       ELSE QuickItems(Tail(items), query_lower, max_results, results)

\* lines 516-524: the walk over the directories of todo
RECURSIVE QuickWalk(_, _, _, _)
QuickWalk(todo, query_lower, max_results, results) ==
  IF todo = <<>> THEN results
  ELSE IF cancel_event \/ Len(results) >= max_results THEN results
       ELSE LET d == Head(todo)
            IN  QuickWalk(WalkDirs(d) \o Tail(todo), query_lower, max_results,
                          QuickItems(WalkDirs(d) \o ListFiles(d, gone),
                                     query_lower, max_results, results))

\* SearchEngine.quick_search(root_path, query, max_results)
QuickSearch ==
  \E root_path \in QuickRoots, query \in QuickQueries,
     max_results \in 0..MaxResultsArg :
    LET op == [NoOp EXCEPT !.name = "quick_search", !.path = root_path,
                           !.query = query, !.max_results = max_results]
    IN  /\ IF ~Exists(root_path)
           THEN ixop' = [op EXCEPT !.failed = TRUE]
           ELSE IF indexing_enabled
                THEN \E R \in QuickCap(IndexSearch(index, query), max_results) :
                       ixop' = [op EXCEPT !.result = R,
                                          !.count = Cardinality(R)]
                ELSE LET results == QuickWalk(<<root_path>>, LowerStr(query),
                                              max_results, <<>>)
                     IN  ixop' = [op EXCEPT !.result = SeqToSet(results),
                                            !.count = Len(results)]
        /\ UNCHANGED <<callers, mtime, hist_base, search_history, now,
                       cancel_event, search_lock, index, file_timestamps,
                       indexing_enabled, gone, pc, call, loc, outcome, obs>>

InitIndex == callers = {} /\ InitEngine

IndexNext ==
  \/ IndexAddFile
  \/ IndexSearchCall
  \/ IndexBuild
  \/ QuickSearch
  \/ TouchFile
  \/ DeleteFile
  \/ CancelSearch

\* one SearchIndex, on a file system that changes
SpecIndex == InitIndex /\ [][IndexNext]_vars

(***************************************************************************)
(* Vocabulary of the properties.                                           *)
(***************************************************************************)
Done(t) == pc[t] = "done"

RootErrors == {"SearchError_no_root", "SearchError_not_dir"}

IndexLabels == {"upd_walk", "upd_add", "ix_check", "ix_loop"}
WalkLabels == {"fs_walk", "fs_file", "fs_proc"}
LockedLabels ==
  {"clear", "history", "select"} \cup IndexLabels \cup WalkLabels
    \cup {"ret", "raise"}

ResultPaths(t) == {loc[t].results[k].path : k \in 1..Len(loc[t].results)}

RECURSIVE Ancestors(_)
Ancestors(p) ==
  IF p \in DirPaths \cup FilePaths
  THEN {DirName(p)} \cup Ancestors(DirName(p))
  ELSE {}

\* f lies in the subtree of root
InTree(root, f) == root \in Ancestors(f)

\* f lies beneath a directory strictly below root whose name starts with '.'
BeneathHidden(root, f) ==
  \E d \in Ancestors(f) \cap DirPaths :
    root \in Ancestors(d) /\ BaseName(d)[1] = "."

Min(a, b) == IF a <= b THEN a ELSE b

NoOtherCriteria(c) ==
  /\ c.content_search = NoneStr
  /\ c.file_type = NoneStr
  /\ c.size_min = NoneNum /\ c.size_max = NoneNum
  /\ c.date_from = NoneNum /\ c.date_to = NoneNum

(***************************************************************************)
(* C1: at most one invocation is inside the locked section of an engine,   *)
(* and the one inside holds the lock; a caller waiting at the lock is not  *)
(* inside.                                                                 *)
(***************************************************************************)
C1_OneInLockedSection ==
  /\ Cardinality({t \in Threads : pc[t] \in LockedLabels}) <= 1
  /\ \A t \in Threads : pc[t] \in LockedLabels => search_lock = t

C1_Witness ==
  \E t, u \in Threads :
    /\ t # u
    /\ pc[t] = "fs_proc"
    /\ pc[u] = "acquire"
    /\ search_lock = t

(***************************************************************************)
(* C2: a filesystem-strategy search with use_index false, no criterion but *)
(* the name pattern, no cancellation, no file-system change and a cap not  *)
(* below the number of matches returns exactly the files of the subtree    *)
(* that are not beneath a hidden directory below the root and whose base   *)
(* name matches the pattern, each once.                                    *)
(***************************************************************************)
C2_Expected(t) ==
  {f \in FilePaths \ gone :
     /\ InTree(call[t].root_path, f)
     /\ ~BeneathHidden(call[t].root_path, f)
     /\ MatchPattern(BaseName(f), call[t].pattern, call[t].case_sensitive,
                     call[t].regex)}

C2_Case(t) ==
  /\ Done(t)
  /\ outcome[t] = "return"
  /\ ~call[t].use_index
  /\ NoOtherCriteria(call[t])
  /\ ~obs[t].cancelled
  /\ ~obs[t].fs_changed
  /\ call[t].max_results >= Cardinality(C2_Expected(t))

C2_FilesystemSearchExact ==
  \A t \in Threads :
    C2_Case(t) =>
      /\ ResultPaths(t) = C2_Expected(t)
      /\ Len(loc[t].results) = Cardinality(C2_Expected(t))

C2_Witness ==
  \E t \in Threads :
    /\ C2_Case(t)
    /\ call[t].root_path = "/r"
    /\ call[t].pattern = <<"*", ".", "t">>
    /\ ResultPaths(t) = {"/r/a.t", "/r/b/Ab.t"}

(***************************************************************************)
(* C3: at every point of every invocation, in both strategies, the number  *)
(* of accepted results is at most max_results.                             *)
(***************************************************************************)
C3_ResultsWithinCap ==
  \A t \in Threads : Len(loc[t].results) <= call[t].max_results

C3_Witness ==
  \E t \in Threads :
    /\ pc[t] = "ix_loop"
    /\ call[t].max_results = 1
    /\ Len(loc[t].results) = 1
    /\ loc[t].candidate_files # {}

(***************************************************************************)
(* C4: an invocation whose root_path does not exist or is not a directory  *)
(* ends at once with a search error, returns no list, runs no strategy,    *)
(* and leaves the index, the timestamps and the progress callback alone.   *)
(***************************************************************************)
C4_BadRootFails ==
  \A t \in Threads :
    (pc[t] # "idle" /\ call[t].root_path \notin DirPaths) =>
      /\ Done(t)
      /\ outcome[t] \in RootErrors
      /\ loc[t].results = <<>>
      /\ obs[t].ran = <<>>
      /\ obs[t].adds = 0
      /\ obs[t].cbs = 0
      /\ index = EmptyMap
      /\ file_timestamps = EmptyMap

C4_Witness ==
  \E t \in Threads :
    /\ Done(t)
    /\ call[t].root_path = "/r/a.t"
    /\ outcome[t] = "SearchError_not_dir"

(***************************************************************************)
(* C5 as claimed: every invocation, whatever its outcome, has appended     *)
(* exactly one descriptor to the history when it ends.                     *)
(***************************************************************************)
C5_EveryInvocationRecorded ==
  \A t \in Threads : Done(t) => obs[t].hist = 1

(***************************************************************************)
(* C5 as amended: an invocation whose root_path passed the checks of lines *)
(* 127-131 appends exactly one descriptor, whatever its outcome, and does  *)
(* so before a strategy starts or a result exists; an invocation rejected  *)
(* by those checks appends none.                                           *)
(***************************************************************************)
C5_ValidInvocationRecorded ==
  \A t \in Threads :
    /\ obs[t].hist <= 1
    /\ (Done(t) /\ outcome[t] \notin RootErrors) => obs[t].hist = 1
    /\ outcome[t] \in RootErrors => obs[t].hist = 0
    /\ (obs[t].ran # <<>> \/ loc[t].results # <<>>) => obs[t].hist = 1

C5_Witness ==
  \E t \in Threads :
    /\ Done(t)
    /\ outcome[t] = "SearchError_failed"
    /\ obs[t].hist = 1
    /\ Len(search_history) = 1

(***************************************************************************)
(* C6: an invocation that starts with the flag set by an earlier           *)
(* cancel_search, and during which cancel_search is not called, never      *)
(* sees the flag: its loops end by exhaustion or by the cap, and the       *)
(* filesystem strategy returns min(max_results, number of acceptable       *)
(* files) acceptable files.                                                *)
(***************************************************************************)
C6_Acceptable(t) ==
  {f \in FilePaths \ gone :
     /\ InTree(call[t].root_path, f)
     /\ ~BeneathHidden(call[t].root_path, f)
     /\ ProcessFile(f, call[t], gone).status = "accept"}

C6_Case(t) ==
  /\ pc[t] \in {"ret", "done"}
  /\ outcome[t] \in {None, "return"}
  /\ obs[t].pending
  /\ ~obs[t].cancelled

C6_PendingCancelCleared ==
  \A t \in Threads :
    C6_Case(t) =>
      /\ obs[t].saw = None
      /\ (obs[t].ran = <<"filesystem">> /\ ~obs[t].fs_changed) =>
           /\ ResultPaths(t) \subseteq C6_Acceptable(t)
           /\ Len(loc[t].results)
                = Min(call[t].max_results, Cardinality(C6_Acceptable(t)))
      /\ (obs[t].ran = <<"index">> /\ pc[t] = "ret") =>
           \/ loc[t].candidate_files = {}
           \/ Len(loc[t].results) >= call[t].max_results

C6_Witness ==
  \E t \in Threads :
    /\ C6_Case(t)
    /\ Done(t)
    /\ obs[t].ran = <<"filesystem">>
    /\ Len(loc[t].results) = 2

(***************************************************************************)
(* C7: the indexed strategy runs exactly when use_index and                *)
(* indexing_enabled hold and no content search was requested; otherwise    *)
(* the filesystem strategy runs; a valid invocation runs exactly one.      *)
(***************************************************************************)
C7_Indexed(t) ==
  /\ call[t].use_index
  /\ indexing_enabled
  /\ call[t].content_search \in {NoneStr, <<>>}

C7_StrategySelection ==
  \A t \in Threads :
    /\ pc[t] \in IndexLabels => (C7_Indexed(t) /\ obs[t].ran = <<"index">>)
    /\ pc[t] \in WalkLabels => (~C7_Indexed(t) /\ obs[t].ran = <<"filesystem">>)
    /\ (pc[t] \in {"ret", "raise"} \/ (Done(t) /\ outcome[t] \notin RootErrors))
         => obs[t].ran = IF C7_Indexed(t) THEN <<"index">>
                                          ELSE <<"filesystem">>
    /\ (pc[t] \in {"idle", "acquire", "clear", "history", "select"}
          \/ outcome[t] \in RootErrors) => obs[t].ran = <<>>

C7_Witness ==
  \E t \in Threads :
    /\ Done(t)
    /\ call[t].use_index
    /\ indexing_enabled
    /\ call[t].content_search = <<"a">>
    /\ obs[t].ran = <<"filesystem">>

(***************************************************************************)
(* C8 as claimed: an invocation whose filesystem walk saw the flag set     *)
(* ends with an operation-cancelled error.                                 *)
(***************************************************************************)
WalkSaw == {"fs_walk", "fs_file"}

C8_WalkCancelRaises ==
  \A t \in Threads :
    (Done(t) /\ obs[t].saw \in WalkSaw) => outcome[t] = "OperationCancelled"

(***************************************************************************)
(* C8 as amended: once the filesystem walk has seen the flag set, no       *)
(* further result is accepted and search_files ends by returning the list  *)
(* accepted so far; it raises no error.                                    *)
(***************************************************************************)
C8_WalkCancelReturns ==
  [][\A t \in Threads :
       obs'[t].saw \in WalkSaw =>
         /\ loc'[t].results = loc[t].results
         /\ pc'[t] \notin {"fs_proc", "raise"}
         /\ pc'[t] = "done" => outcome'[t] = "return"]_vars

C8_Witness ==
  \E t \in Threads :
    /\ Done(t)
    /\ obs[t].saw \in WalkSaw
    /\ outcome[t] = "return"
    /\ loc[t].results # <<>>

(***************************************************************************)
(* C9: once the refresh of the indexed strategy has seen the flag set, the *)
(* invocation changes the index no more and ends by returning the empty    *)
(* list without raising.                                                   *)
(***************************************************************************)
RefreshSaw == {"upd_walk", "upd_add"}

C9_RefreshCancelSilent ==
  [][\A t \in Threads :
       obs'[t].saw \in RefreshSaw =>
         /\ pc'[t] # pc[t] =>
              (index' = index /\ file_timestamps' = file_timestamps)
         /\ pc'[t] # "raise"
         /\ pc'[t] = "done" =>
              (outcome'[t] = "return" /\ loc'[t].results = <<>>)]_vars

C9_Witness ==
  \E t \in Threads :
    /\ Done(t)
    /\ obs[t].saw = "upd_add"
    /\ outcome[t] = "return"
    /\ loc[t].results = <<>>
    /\ obs[t].adds >= 1
    /\ index # EmptyMap

(***************************************************************************)
(* C10 as claimed: a filesystem-strategy invocation during which the flag  *)
(* became set after the entry clear and before a first file was accepted   *)
(* returns no result.                                                      *)
(***************************************************************************)
C10_EarlyCancelNoResult ==
  \A t \in Threads :
    (Done(t) /\ obs[t].ran = <<"filesystem">>
       /\ obs[t].late \in {"before_file", "in_file"}) =>
      (outcome[t] = "return" /\ loc[t].results = <<>>)

(***************************************************************************)
(* C10 as amended: such an invocation does not raise; it returns no result *)
(* when the flag became set while no file was being processed, and at most *)
(* one result, the file that had already passed the test of line 225, when *)
(* the flag became set while that file was being processed.                *)
(***************************************************************************)
C10_EarlyCancelAtMostOne ==
  \A t \in Threads :
    obs[t].ran = <<"filesystem">> =>
      /\ obs[t].late = "before_file" => loc[t].results = <<>>
      /\ obs[t].late = "in_file" => Len(loc[t].results) <= 1
      /\ (Done(t) /\ obs[t].late \in {"before_file", "in_file"})
           => outcome[t] = "return"

C10_Witness ==
  \E t \in Threads :
    /\ Done(t)
    /\ obs[t].ran = <<"filesystem">>
    /\ obs[t].late = "in_file"
    /\ outcome[t] = "return"
    /\ Len(loc[t].results) = 1


(***************************************************************************)
(* SearchIndex.                                                            *)
(***************************************************************************)
\* the last direct call was add_file(f)
Added(f) == ixop.name = "add_file" /\ ixop.path = f

\* the paths held by some posting set
Posted == UNION {index[w] : w \in DOMAIN index}

\* C11: on a fresh SearchIndex is_indexed(f) is false before add_file(f),
\* true immediately after a successful add_file(f), false again once the
\* modification time of f on disk exceeds the recorded one, and false, not
\* an error, whenever f is missing from disk.
C11_IsIndexedFollowsDisk ==
  \A f \in FilePaths :
    LET indexed == IsIndexed(file_timestamps, gone, f)
    IN  /\ indexed \in BOOLEAN
        /\ f \notin DOMAIN file_timestamps => ~indexed
        /\ Added(f) /\ ~ixop.failed => indexed
        /\ (f \in DOMAIN file_timestamps /\ mtime[f] > file_timestamps[f])
             => ~indexed
        /\ f \in gone => ~indexed

\* a file was added, then modified; another was added, then deleted; a
\* third was just added
C11_Witness ==
  /\ "/r/a.t" \in DOMAIN file_timestamps
  /\ mtime["/r/a.t"] > file_timestamps["/r/a.t"]
  /\ "/r/b/Ab.t" \in DOMAIN file_timestamps /\ "/r/b/Ab.t" \in gone
  /\ Added("/r/b/ba") /\ ~ixop.failed
  /\ "/r/.h/a.t" \notin DOMAIN file_timestamps

\* the paths p such that every word of q is part of some indexed token whose
\* posting set contains p
C12_Expected(q) ==
  LET ws == SeqToSet(FindWords(LowerStr(q)))
  IN  IF ws = {} THEN {}
      ELSE {p \in FilePaths :
              \A w \in ws : \E t \in DOMAIN index :
                 IsSubstring(w, t) /\ p \in index[t]}

\* C12: search(q) returns exactly the paths p such that for every word
\* token w of the lower-cased q some indexed token t has w as a substring
\* and p in its posting set; it returns the empty set when q has no word
\* token.
C12_SearchExact ==
  ixop.name = "search" => ixop.result = C12_Expected(ixop.query)

\* a query of two words, one of which alone matches more files than both
C12_Witness ==
  /\ ixop.name = "search" /\ ixop.query = <<"b", ".", "a">>
  /\ ixop.result = {"/r/b/Ab.t", "/r/b/ba"}
  /\ "/r/a.t" \in IndexSearch(index, <<"a">>)

\* C13: add_file(f) twice on an unchanged file leaves the index as one
\* call does: every search and the recorded timestamp of f are the same.
C13_AddFileIdempotent ==
  [][(ixop'.name = "add_file" /\ ixop'.repeat)
       => /\ index' = index
          /\ file_timestamps' = file_timestamps
          /\ \A q \in Queries : IndexSearch(index', q) = IndexSearch(index, q)]_vars

\* the second of two calls on a file that exists
C13_Witness ==
  /\ ixop.name = "add_file" /\ ixop.repeat /\ ~ixop.failed
  /\ ixop.path \in DOMAIN file_timestamps

\* C14: adding the same files in any two orders gives the same index
\* mapping and the same result of every search.
C14_OrderIndependent ==
  ixop.name = "build"
    => /\ ixop.built[1] = ixop.built[2]
       /\ \A q \in Queries :
            IndexSearch(ixop.built[1].index, q)
              = IndexSearch(ixop.built[2].index, q)

\* three files, two of which share a token, added in two different orders
C14_Witness ==
  /\ ixop.name = "build"
  /\ ixop.orders[1] = <<"/r/a.t", "/r/b/Ab.t", "/r/b/ba">>
  /\ ixop.orders[2] = <<"/r/b/ba", "/r/b/Ab.t", "/r/a.t">>
  /\ ixop.built[1].index[<<"t">>] = {"/r/a.t", "/r/b/Ab.t"}

\* C20: add_file(f) on a file the file system refuses does not raise, and
\* afterwards the index omits f: no posting set contains it and no
\* timestamp is recorded for it.
C20_FailedAddOmitsFile ==
  ixop.name = "add_file" /\ ixop.failed
    => ixop.path \notin Posted /\ ixop.path \notin DOMAIN file_timestamps

(***************************************************************************)
(* Content search and size bounds.                                         *)
(***************************************************************************)
Results(t) == {loc[t].results[k] : k \in 1..Len(loc[t].results)}

\* the content of the file of result r holds the term of the invocation of t
TermOccurs(t, r) ==
  \E n \in 1..Len(FileLines(r.path)) :
    IF call[t].case_sensitive
    THEN IsSubstring(call[t].content_search, FileLines(r.path)[n])
    ELSE IsSubstring(LowerStr(call[t].content_search),
                     LowerStr(FileLines(r.path)[n]))

\* C15: no result of kind 'content', and none with a match line or a line
\* number, is produced for a file larger than
\* max_file_size_for_content_search, even when the term occurs in it.
C15_NoContentMatchForLargeFile ==
  \A t \in Threads : \A r \in Results(t) :
    r.size > max_file_size_for_content_search
      => /\ r.match_type # "content"
         /\ r.match_line = NoneStr
         /\ r.match_line_number = NoneNum

\* a file larger than the limit that holds the term was returned
C15_Witness ==
  \E t \in Threads : \E r \in Results(t) :
    /\ TruthyStr(call[t].content_search)
    /\ r.size > max_file_size_for_content_search
    /\ TermOccurs(t, r)

\* r is a content hit: its match line is a line of the file holding the term
ContentHit(t, r) ==
  /\ r.match_type = "content"
  /\ r.match_line_number \in 1..Len(FileLines(r.path))
  /\ r.match_line = FileLines(r.path)[r.match_line_number]
  /\ TermOccurs(t, r)

\* the base name of r matches content_search under _match_pattern
NameFallback(t, r) ==
  MatchPattern(r.name, call[t].content_search, call[t].case_sensitive,
               call[t].regex)

\* C16 as stated: with content_search given, every returned result has a
\* content hit or a base name matching content_search.
C16_HitOrNameMatch ==
  \A t \in Threads : \A r \in Results(t) :
    TruthyStr(call[t].content_search) => ContentHit(t, r) \/ NameFallback(t, r)

\* C16: with content_search given, every returned result whose file is not
\* larger than max_file_size_for_content_search has a content hit or a base
\* name matching content_search; a larger file is returned without either.
C16_HitOrNameMatchUnlessLarge ==
  \A t \in Threads : \A r \in Results(t) :
    TruthyStr(call[t].content_search)
      => \/ r.size > max_file_size_for_content_search
         \/ ContentHit(t, r)
         \/ (r.match_type = "filename" /\ NameFallback(t, r))

\* an invocation returned files that lack the term on their names, and
\* rejected the file that lacks the term and whose name does not match
C16_Witness ==
  \E t \in Threads :
    /\ call[t].content_search = <<"a", "*">> /\ outcome[t] = "return"
    /\ \E r \in Results(t) : r.match_type = "filename" /\ ~TermOccurs(t, r)
    /\ "/r/b/ba" \notin ResultPaths(t) /\ ~obs[t].cancelled /\ gone = {}

\* C17: every supplied size_min and size_max, the value 0 included, is
\* enforced in both strategies: a returned file has
\* size_min <= size <= size_max.
C17_SizeBoundsEnforced ==
  \A t \in Threads : \A r \in Results(t) :
    /\ call[t].size_min # NoneNum => r.size >= call[t].size_min
    /\ call[t].size_max # NoneNum => r.size <= call[t].size_max

\* C19: in the indexed strategy, after an uncancelled refresh of the
\* subtree, index.search(pattern) contains every file of the subtree outside
\* hidden directories whose base name matches the pattern.
C19_IndexSearchSuperset ==
  \A t \in Threads :
    LET c == call[t]
        Visible(f) == InTree(c.root_path, f) /\ ~BeneathHidden(c.root_path, f)
    IN  (/\ pc[t] = "ix_loop" /\ loc[t].i = 0
         /\ obs[t].saw = None /\ ~obs[t].fs_changed /\ gone = {}
         /\ \A f \in FilePaths :
              Visible(f) => IsIndexed(file_timestamps, gone, f) /\ f \in Posted)
        => \A f \in FilePaths :
             (Visible(f) /\ MatchPattern(BaseName(f), c.pattern,
                                         c.case_sensitive, c.regex))
               => f \in loc[t].candidate_files

(***************************************************************************)
(* History.                                                                *)
(***************************************************************************)
\* the invocations recorded since the last clear_history
RecordedSinceClear == now - hist_base

\* C18: after any sequence of search_files and clear_history calls the
\* history holds at most 50 descriptors in invocation order, and it is the
\* last min(n, 50) invocations recorded since the last clear: when a 51st
\* would be stored, the oldest is evicted.
C18_HistoryIsLastFifty ==
  LET n == Len(search_history)
  IN  /\ n <= 50
      /\ n = Min(RecordedSinceClear, 50)
      /\ \A k \in 1..n : search_history[k].timestamp = now - n + k

\* a 51st descriptor was stored: the first of the 50 held before is gone
C18_Witness ==
  /\ hist_base = 0 /\ now = 51
  /\ Len(search_history) = 50
  /\ search_history[1].timestamp = 2
  /\ search_history[50].timestamp = 51

(***************************************************************************)
(* quick_search.                                                           *)
(***************************************************************************)
\* C21: quick_search returns at most max_results paths in both modes; with
\* indexing enabled it returns exactly min(max_results, |S|) elements of
\* S = index.search(query), not re-validated and without a walk or a
\* refresh.
C21_QuickSearchCapped ==
  (ixop.name = "quick_search" /\ ~ixop.failed)
    => /\ ixop.count <= ixop.max_results
       /\ Cardinality(ixop.result) = ixop.count
       /\ indexing_enabled
            => LET S == IndexSearch(index, ixop.query)
               IN  /\ ixop.result \subseteq S
                   /\ ixop.count = Min(ixop.max_results, Cardinality(S))

\* with indexing enabled the slice cut the index hits, and it holds a file
\* deleted from disk that lies outside the root passed
C21_Witness ==
  /\ ixop.name = "quick_search" /\ indexing_enabled
  /\ ixop.path = "/r/b" /\ ixop.max_results = 2
  /\ ixop.count = 2 /\ Cardinality(IndexSearch(index, ixop.query)) = 3
  /\ \E f \in ixop.result : f \in gone
  /\ "/r/a.t" \in ixop.result

(***************************************************************************)
(* The indexed strategy.                                                   *)
(***************************************************************************)
\* C22: every result of the indexed strategy was re-validated: its file
\* exists, its base name matches the pattern, it satisfies the extension,
\* size and date criteria and its match kind is 'filename'; a candidate
\* whose stat fails is skipped and never makes search_files raise.
C22_IndexedResultsValidated ==
  \A t \in Threads :
    obs[t].ran = <<"index">> =>
      /\ \A r \in Results(t) :
           LET c == call[t]
           IN  /\ ~obs[t].fs_changed => r.path \notin gone
               /\ MatchPattern(r.name, c.pattern, c.case_sensitive, c.regex)
               /\ c.file_type # NoneStr
                    => EndsWith(LowerStr(r.name), LowerStr(c.file_type))
               /\ c.size_min # NoneNum => r.size >= c.size_min
               /\ c.size_max # NoneNum => r.size <= c.size_max
               /\ c.date_from # NoneNum => r.modified >= c.date_from
               /\ c.date_to # NoneNum => r.modified <= c.date_to
               /\ r.match_type = "filename"
      /\ (Done(t) /\ call[t].progress_callback # "raise")
           => outcome[t] = "return"

(***************************************************************************)
(* The filesystem strategy.                                                *)
(***************************************************************************)
\* the invocation of t has accepted max_results results, at least one
CapReached(t) ==
  /\ loc[t].results # <<>>
  /\ Len(loc[t].results) >= call[t].max_results

\* C23: in the filesystem strategy, once max_results results have been
\* accepted no further file is evaluated and no further directory of the
\* tree is enumerated.
C23_WalkStopsAtCap ==
  [][\A t \in Threads :
       (pc[t] \in WalkLabels /\ CapReached(t))
         => /\ pc'[t] # "fs_proc"
            /\ ~(pc[t] = "fs_walk" /\ pc'[t] = "fs_file")]_vars

\* the words of the base name of a result
Tokens(r) == SeqToSet(FindWords(LowerStr(r.name)))

\* a filesystem-strategy invocation that has not raised
C24_Case(t) ==
  /\ obs[t].ran = <<"filesystem">>
  /\ indexing_enabled
  /\ outcome[t] \in {None, "return"}

C25_Stable(t) ==
  {f \in FilePaths \ Deletable :
     /\ InTree(call[t].root_path, f)
     /\ ~BeneathHidden(call[t].root_path, f)
     /\ ProcessFile(f, call[t], {}).status = "accept"}

\* C25: an I/O error on one item of the filesystem walk only skips that
\* item: search_files does not raise because of it, and every other file of
\* the tree is still evaluated and returned if it matches.
C25_ItemErrorSkipsItem ==
  \A t \in callers :
    (obs[t].ran = <<"filesystem">> /\ Done(t)
       /\ call[t].progress_callback # "raise")
      => /\ outcome[t] = "return"
         /\ (~obs[t].cancelled /\ Len(loc[t].results) < call[t].max_results)
              => C25_Stable(t) \subseteq ResultPaths(t)

\* a file was deleted between its listing and its stat; the file listed
\* after it was returned
C25_Witness ==
  \E t \in callers :
    /\ obs[t].ran = <<"filesystem">> /\ Done(t) /\ outcome[t] = "return"
    /\ obs[t].skipped = 1
    /\ ResultPaths(t) = {"/r/a.t", "/r/b/ba"}

(***************************************************************************)
(* The index shared by the operations of one engine.                       *)
(***************************************************************************)
\* some invocation of search_files is between its entry and its end
SearchInProgress == \E t \in Threads : pc[t] \in LockedLabels

\* C26: while a search_files invocation is in progress the index of the
\* engine is not replaced or emptied by another operation: whatever add_file
\* put into it stays in the index later operations observe.
C26_IndexKeptDuringSearch ==
  [][SearchInProgress
       => /\ \A w \in DOMAIN index :
               w \in DOMAIN index' /\ index[w] \subseteq index'[w]
          /\ DOMAIN file_timestamps \subseteq DOMAIN file_timestamps']_vars

\* C27: every path search_files returns lies in the subtree of the
\* root_path of that call, in both strategies and whatever roots were
\* searched on the engine before.
C27_ResultsInsideRoot ==
  \A t \in Threads : \A r \in Results(t) : InTree(call[t].root_path, r.path)

\* C28: search_files never returns a file beneath a directory strictly
\* below root_path whose name starts with '.', in either strategy and
\* whatever was searched on the engine before.
C28_NoHiddenResults ==
  \A t \in Threads : \A r \in Results(t) :
    InTree(call[t].root_path, r.path)
      => ~BeneathHidden(call[t].root_path, r.path)

(***************************************************************************)
(* The search lock.                                                        *)
(***************************************************************************)
\* C29: the search lock is always released: an invocation that acquired it
\* releases it whether it returns, is cancelled or raises, so a caller
\* blocked on the lock eventually enters.
C29_LockAlwaysReleased ==
  \A t \in Threads :
    /\ (search_lock = t) ~> (search_lock # t /\ Done(t))
    /\ (pc[t] = "acquire") ~> (search_lock = t)

\* a caller waits at the lock while the holder is about to raise
C29_Witness ==
  \E t, u \in Threads :
    /\ pc[t] = "acquire" /\ pc[u] = "raise" /\ search_lock = u

(***************************************************************************)
(* Cancellation of a walk.                                                 *)
(***************************************************************************)
\* the files on disk in the order the walk of todo meets them
RECURSIVE WalkFiles(_)
WalkFiles(todo) ==
  IF todo = <<>> THEN <<>>
  ELSE ListFiles(Head(todo), gone)
         \o WalkFiles(PrunedDirs(Head(todo)) \o Tail(todo))

\* the paths the invocation of t returns when nothing disturbs it
Uncancelled(t) ==
  LET hits == SelectSeq(WalkFiles(<<call[t].root_path>>),
                LAMBDA f : ProcessFile(f, call[t], gone).status = "accept")
  IN  SubSeq(hits, 1, Min(Len(hits), call[t].max_results))

ReturnedPaths(t) == [k \in 1..Len(loc[t].results) |-> loc[t].results[k].path]

IsPrefix(a, b) == Len(a) <= Len(b) /\ a = SubSeq(b, 1, Len(a))

\* a walk of an unchanged tree that has not raised
C30_Case(t) ==
  /\ obs[t].ran = <<"filesystem">>
  /\ ~obs[t].fs_changed
  /\ outcome[t] \in {None, "return"}

\* the list of a walk is a prefix of the list of the undisturbed walk, and
\* is that list when the walk ends without a cancel_search
C30_PrefixOfUncancelled(t) ==
  C30_Case(t) =>
    /\ IsPrefix(ReturnedPaths(t), Uncancelled(t))
    /\ (Done(t) /\ ~obs[t].cancelled) => ReturnedPaths(t) = Uncancelled(t)

\* C30: on an unchanging tree the list a cancelled filesystem search
\* returns is a prefix of the list the same search returns uncancelled;
\* once the set flag was observed no result is appended, and once the flag
\* is set no file other than the one being evaluated is processed.
C30_CancelledWalkIsPrefix ==
  [][\A t \in callers :
       /\ C30_PrefixOfUncancelled(t)'
       /\ (C30_Case(t)' /\ obs[t].saw # None)
            => loc'[t].results = loc[t].results
       /\ (cancel_event /\ pc[t] \in {"fs_walk", "fs_file"})
            => pc'[t] # "fs_proc"]_vars

\* a walk cancelled after its first result returned a proper, non-empty
\* prefix
C30_Witness ==
  \E t \in callers :
    /\ C30_Case(t) /\ Done(t) /\ obs[t].saw # None
    /\ loc[t].results # <<>>
    /\ Len(loc[t].results) < Len(Uncancelled(t))

====
